---------------------------- MODULE Spec2Model ----------------------------
(***************************************************************************)
(* InterviewPilot: the response evaluator (src/agent/evaluator.py) and the *)
(* context retriever (src/rag/retriever.py) as state machines.             *)
(*                                                                         *)
(* Texts are TLA+ strings; a character is a string of length one.          *)
(* Python floats that are quotients of small integers are kept as exact    *)
(* fractions [num, den]; distances and thresholds are kept in hundredths.  *)
(***************************************************************************)
EXTENDS Integers, Sequences, FiniteSets, TLC

VARIABLES
    sessions,     \* ResponseEvaluator._sessions: session id -> SessionMetrics
    clock,        \* what datetime.now() returns
    lastCall,     \* the evaluator call that ran last, with what it returned
    evaluation,   \* the text handed to _parse_evaluation
    appended,     \* how many fragments evaluation was put together from
    parsed,       \* the ResponseScore _parse_evaluation returned for it
    metrics,      \* one SessionMetrics whose summary is taken
    summary,      \* what to_summary() returned for metrics
    collection,   \* the vector store's documents, ranked for the query
    lastQuery,    \* the retriever call that ran last, with what it returned
    documents,    \* the loaded documents, the list handed to chunk_documents
    chunked_docs, \* None, or Some(what chunk_documents returned for documents)
    files,        \* the knowledge base: location -> condition of the file there
    base_path,    \* DocumentLoader.base_path
    lastLoad,     \* the loader call that ran last, with what it returned
    _vectorstore, \* VectorStoreManager._vectorstore: None or Some(handle)
    handles,      \* how many Chroma handles have been created so far
    chroma,       \* the client's collection: None, or Some(its entries)
    issued,       \* how many ids the store has generated so far
    lastStore,    \* the manager call that ran last, with what it did
    jobs,         \* the entrypoint calls: room -> where the call is, with its locals
    open_session, \* the SessionMetrics two concurrent evaluate_response calls share
    pc,           \* caller -> the statement of evaluate_response / add_score it is at
    tmp,          \* caller -> what the caller holds in locals and on its stack
    before,       \* the session as it was before the two calls
    overlapped,   \* whether a call ran part of add_score inside the other's
    environ,      \* the process environment: CHUNK_SIZE, CHUNK_OVERLAP, None or Some(int)
    settings,     \* what get_settings() has cached: None or Some(Settings)
    chunker       \* None, or Some(what building the chunker from settings gave)

vars == <<sessions, clock, lastCall, evaluation, appended, parsed, metrics, summary,
          collection, lastQuery, documents, chunked_docs,
          files, base_path, lastLoad,
          _vectorstore, handles, chroma, issued, lastStore,
          jobs,
          open_session, pc, tmp, before, overlapped,
          environ, settings, chunker>>

evalVars == <<sessions, clock, lastCall>>
parseVars == <<evaluation, appended, parsed>>
summaryVars == <<metrics, summary>>
ragVars == <<collection, lastQuery>>
chunkVars == <<documents, chunked_docs>>
loadVars == <<files, base_path, lastLoad>>
storeVars == <<_vectorstore, handles, chroma, issued, lastStore>>
entryVars == <<jobs>>
raceVars == <<open_session, pc, tmp, before, overlapped>>
configVars == <<environ, settings, chunker>>
extVars == <<chunkVars, loadVars, storeVars, entryVars, raceVars, configVars>>
exceptChunk == <<evalVars, parseVars, summaryVars, ragVars, loadVars, storeVars, entryVars, raceVars, configVars>>
exceptLoad == <<evalVars, parseVars, summaryVars, ragVars, chunkVars, storeVars, entryVars, raceVars, configVars>>
exceptStore == <<evalVars, parseVars, summaryVars, ragVars, chunkVars, loadVars, entryVars, raceVars, configVars>>
exceptEntry == <<evalVars, parseVars, summaryVars, ragVars, chunkVars, loadVars, storeVars, raceVars, configVars>>
exceptRace == <<evalVars, parseVars, summaryVars, ragVars, chunkVars, loadVars, storeVars, entryVars, configVars>>
exceptConfig == <<evalVars, parseVars, summaryVars, ragVars, chunkVars, loadVars, storeVars, entryVars, raceVars>>
coreVars == <<evalVars, parseVars, summaryVars, ragVars>>

-----------------------------------------------------------------------------
(* Bounds of the model.                                                    *)

MaxClock == 1
MaxScores == 2
MaxFrags == 4
MaxTrend == 7
MaxFeedback == 3
MaxDocs == 3
MaxK == 2

-----------------------------------------------------------------------------
(* Python str operations.                                                  *)

Char(s, i) == SubSeq(s, i, i)

Min(a, b) == IF a <= b THEN a ELSE b

\* the characters of a string, as a set
CharsOf(chars) == {Char(chars, i) : i \in 1..Len(chars)}

\* str.find(sub) + 1: the first position of sub in s, 0 when absent
RECURSIVE FindFrom(_, _, _)
FindFrom(s, sub, i) ==
    IF i + Len(sub) - 1 > Len(s) THEN 0
    ELSE IF SubSeq(s, i, i + Len(sub) - 1) = sub THEN i
    ELSE FindFrom(s, sub, i + 1)

Find(s, sub) == FindFrom(s, sub, 1)

\* sub in s
Contains(s, sub) == Find(s, sub) # 0

\* s.startswith(prefix)
StartsWith(s, prefix) == Len(prefix) <= Len(s) /\ SubSeq(s, 1, Len(prefix)) = prefix

UpperChars == "ABCDEFGHIJKLMNOPQRSTUVWXYZ"
LowerChars == "abcdefghijklmnopqrstuvwxyz"

LowerOf ==
    [c \in {Char(UpperChars, i) : i \in 1..Len(UpperChars)} |->
        Char(LowerChars, Find(UpperChars, c))]

LowerChar(c) == IF c \in DOMAIN LowerOf THEN LowerOf[c] ELSE c

\* s.lower()
RECURSIVE Lower(_)
Lower(s) == IF s = "" THEN "" ELSE LowerChar(Char(s, 1)) \o Lower(SubSeq(s, 2, Len(s)))

\* s.split(sep) for a non-empty separator
RECURSIVE Split(_, _)
Split(s, sep) ==
    LET i == Find(s, sep)
    IN IF i = 0 THEN <<s>>
       ELSE <<SubSeq(s, 1, i - 1)>> \o Split(SubSeq(s, i + Len(sep), Len(s)), sep)

\* s.split(sep, 1)[1] when sep in s
AfterFirst(s, sep) == SubSeq(s, Find(s, sep) + Len(sep), Len(s))

\* s.replace(old, "")
RECURSIVE Remove(_, _)
Remove(s, old) ==
    LET i == Find(s, old)
    IN IF i = 0 THEN s
       ELSE SubSeq(s, 1, i - 1) \o Remove(SubSeq(s, i + Len(old), Len(s)), old)

Whitespace == CharsOf(" \t\n\r\f")

RECURSIVE LStripChars(_, _)
LStripChars(s, chars) ==
    IF s # "" /\ Char(s, 1) \in chars
    THEN LStripChars(SubSeq(s, 2, Len(s)), chars) ELSE s

RECURSIVE RStripChars(_, _)
RStripChars(s, chars) ==
    IF s # "" /\ Char(s, Len(s)) \in chars
    THEN RStripChars(SubSeq(s, 1, Len(s) - 1), chars) ELSE s

\* s.strip(chars), chars given as a set
StripChars(s, chars) == RStripChars(LStripChars(s, chars), chars)

\* s.strip()
Strip(s) == StripChars(s, Whitespace)

\* s.split(): the maximal runs of non-whitespace characters
RECURSIVE WordEnd(_, _)
WordEnd(t, i) ==
    IF i > Len(t) \/ Char(t, i) \in Whitespace THEN i ELSE WordEnd(t, i + 1)

RECURSIVE Words(_)
Words(s) ==
    LET t == LStripChars(s, Whitespace)
        e == WordEnd(t, 1)
    IN IF t = "" THEN <<>>
       ELSE <<SubSeq(t, 1, e - 1)>> \o Words(SubSeq(t, e, Len(t)))

Digits == "0123456789"
DigitChars == CharsOf(Digits \o "_")
SignChars == CharsOf("+-")

RECURSIVE DigitsValue(_, _)
DigitsValue(s, acc) ==
    IF s = "" THEN acc
    ELSE IF Char(s, 1) = "_" THEN DigitsValue(SubSeq(s, 2, Len(s)), acc)
    ELSE DigitsValue(SubSeq(s, 2, Len(s)), 10 * acc + Find(Digits, Char(s, 1)) - 1)

\* int(w): an optional sign, then decimal digits which single underscores may
\* separate; ok is FALSE where int raises ValueError
ParseInt(w) ==
    LET t == Strip(w)
        signed == t # "" /\ Char(t, 1) \in SignChars
        body == IF signed THEN SubSeq(t, 2, Len(t)) ELSE t
        wellFormed ==
            /\ body # ""
            /\ \A i \in 1..Len(body) : Char(body, i) \in DigitChars
            /\ Char(body, 1) # "_" /\ Char(body, Len(body)) # "_"
            /\ ~Contains(body, "__")
        v == DigitsValue(body, 0)
    IN IF ~wellFormed THEN [ok |-> FALSE, val |-> 0]
       ELSE [ok |-> TRUE, val |-> IF signed /\ Char(t, 1) = "-" THEN 0 - v ELSE v]

-----------------------------------------------------------------------------
(* src/agent/evaluator.py: ResponseScore and _parse_evaluation.            *)

ResponseScore(overall, strengths, improvements, raw_feedback) ==
    [overall |-> overall, strengths |-> strengths,
     improvements |-> improvements, raw_feedback |-> raw_feedback]

\* word.strip("():/")
ScoreStrip == CharsOf("():/")

\* the bounds of an accepted score, and the default
ScoreMin == 1
ScoreMax == 10
DefaultScore == 7

\* the mutant of ScanWords: no break, so the last valid word of the line wins
RECURSIVE ScanWordsNoBreak(_, _, _)
ScanWordsNoBreak(words, j, score) ==
    IF j > Len(words) THEN score
    ELSE LET num == ParseInt(StripChars(words[j], ScoreStrip))
         IN IF num.ok /\ ScoreMin <= num.val /\ num.val <= ScoreMax
            THEN ScanWordsNoBreak(words, j + 1, num.val)
            ELSE ScanWordsNoBreak(words, j + 1, score)

\* for word in line.split(): the first word that is an integer in 1..10
\* replaces score and ends the loop; ValueError moves on to the next word
RECURSIVE ScanWords(_, _, _)
ScanWords(words, j, score) ==
    IF j > Len(words) THEN score
    ELSE LET num == ParseInt(StripChars(words[j], ScoreStrip))
         IN IF num.ok /\ ScoreMin <= num.val /\ num.val <= ScoreMax
            THEN num.val
            ELSE ScanWords(words, j + 1, score)

\* the mutant of ColonSuffix: the text after the last colon
ColonSuffixLast(line) ==
    LET parts == Split(line, ":") IN Strip(parts[Len(parts)])

\* line.split(":", 1)[1].strip()
ColonSuffix(line) == Strip(AfterFirst(line, ":"))

\* any(word in line_lower for word in ["improve", "suggestion", "consider"])
MentionsImprovement(line_lower) ==
    \/ Contains(line_lower, "improve")
    \/ Contains(line_lower, "suggestion")
    \/ Contains(line_lower, "consider")

\* one pass of the loop over lines: acc is (score, strengths, improvements)
ParseLine(line, acc) ==
    LET line_lower == Lower(line)
        score ==
            IF Contains(line_lower, "score") \/ Contains(line, "/10")
            THEN ScanWords(Words(line), 1, acc.overall)
            ELSE acc.overall
        strengths ==
            IF Contains(line_lower, "strength") /\ Contains(line, ":")
               /\ ColonSuffix(line) # ""
            THEN Append(acc.strengths, ColonSuffix(line))
            ELSE acc.strengths
        improvements ==
            IF MentionsImprovement(line_lower) /\ Contains(line, ":")
               /\ ColonSuffix(line) # ""
            THEN Append(acc.improvements, ColonSuffix(line))
            ELSE acc.improvements
    IN ResponseScore(score, strengths, improvements, acc.raw_feedback)

RECURSIVE ParseLines(_, _, _)
ParseLines(lines, i, acc) ==
    IF i > Len(lines) THEN acc
    ELSE ParseLines(lines, i + 1, ParseLine(lines[i], acc))

_parse_evaluation(text) ==
    ParseLines(Split(text, "\n"), 1, ResponseScore(DefaultScore, <<>>, <<>>, text))

-----------------------------------------------------------------------------
(* src/agent/evaluator.py: SessionMetrics.                                 *)

\* Optional[T]: <<>> is None, <<v>> is v
None == <<>>
Some(v) == <<v>>

\* total / n as Python computes it, kept as an exact fraction
Quotient(total, n) == [num |-> total, den |-> n]
Zero == [num |-> 0, den |-> 1]
SameFraction(a, b) == a.num * b.den = b.num * a.den

RECURSIVE SumOverall(_)
SumOverall(scores) ==
    IF scores = <<>> THEN 0 ELSE Head(scores).overall + SumOverall(Tail(scores))

SessionMetrics(session_id, interview_type, started_at) ==
    [session_id |-> session_id, interview_type |-> interview_type,
     started_at |-> started_at, ended_at |-> None,
     questions_answered |-> 0, average_score |-> Zero, scores |-> <<>>]

\* the mutant of add_score: the average is taken before the new score is appended
add_score_stale(self, score) ==
    [self EXCEPT !.scores = Append(@, score),
                 !.questions_answered = @ + 1,
                 !.average_score =
                     IF self.scores = <<>> THEN Zero
                     ELSE Quotient(SumOverall(self.scores), Len(self.scores))]

add_score(self, score) ==
    LET scores == Append(self.scores, score)
    IN [self EXCEPT !.scores = scores,
                    !.questions_answered = @ + 1,
                    !.average_score = Quotient(SumOverall(scores), Len(scores))]

\* the mutant of _score_trend: the thresholds are inclusive
score_trend_inclusive(self) ==
    LET n == Len(self.scores)
        first_half == SubSeq(self.scores, 1, n \div 2)
        second_half == SubSeq(self.scores, n \div 2 + 1, n)
        twiceDiffNum == 2 * (SumOverall(second_half) * Len(first_half)
                                 - SumOverall(first_half) * Len(second_half))
        den == Len(first_half) * Len(second_half)
    IN IF n < 3 THEN "not_enough_data"
       ELSE IF twiceDiffNum >= den THEN "improving"
       ELSE IF twiceDiffNum <= 0 - den THEN "declining"
       ELSE "stable"

\* a - b for two fractions
Minus(a, b) == [num |-> a.num * b.den - b.num * a.den, den |-> a.den * b.den]

\* a > 0.5 and a < -0.5 for a fraction with a positive denominator
AboveHalf(a) == 2 * a.num > a.den
BelowMinusHalf(a) == 2 * a.num < 0 - a.den

_score_trend(self) ==
    LET n == Len(self.scores)
        first_half == SubSeq(self.scores, 1, n \div 2)
        second_half == SubSeq(self.scores, n \div 2 + 1, n)
        first_avg == Quotient(SumOverall(first_half), Len(first_half))
        second_avg == Quotient(SumOverall(second_half), Len(second_half))
        diff == Minus(second_avg, first_avg)
    IN IF n < 3 THEN "not_enough_data"
       ELSE IF AboveHalf(diff) THEN "improving"
       ELSE IF BelowMinusHalf(diff) THEN "declining"
       ELSE "stable"

\* all_items.extend(getattr(score, field_name)) over the scores, in order
RECURSIVE AllItems(_, _)
AllItems(scores, field_name) ==
    IF scores = <<>> THEN <<>>
    ELSE Head(scores)[field_name] \o AllItems(Tail(scores), field_name)

\* the seen/unique loop: each item is kept the first time it is met
RECURSIVE Unique(_, _, _)
Unique(items, seen, unique) ==
    IF items = <<>> THEN unique
    ELSE IF Head(items) \in seen THEN Unique(Tail(items), seen, unique)
    ELSE Unique(Tail(items), seen \cup {Head(items)}, Append(unique, Head(items)))

\* unique[:5]
TopN == 5

\* the mutant of _aggregate_feedback: the cut to five comes before the dedup
aggregate_feedback_cut_first(self, field_name) ==
    LET all_items == AllItems(self.scores, field_name)
    IN Unique(SubSeq(all_items, 1, Min(TopN, Len(all_items))), {}, <<>>)

_aggregate_feedback(self, field_name) ==
    LET unique == Unique(AllItems(self.scores, field_name), {}, <<>>)
    IN SubSeq(unique, 1, Min(TopN, Len(unique)))

\* duration_minutes and the rounded average_score, two float renderings, are
\* left out of the summary
to_summary(self) ==
    [session_id |-> self.session_id,
     interview_type |-> self.interview_type,
     questions_answered |-> self.questions_answered,
     score_trend |-> _score_trend(self),
     top_strengths |-> _aggregate_feedback(self, "strengths"),
     areas_to_improve |-> _aggregate_feedback(self, "improvements")]

-----------------------------------------------------------------------------
(* src/agent/evaluator.py: ResponseEvaluator.                              *)

SessionIds == {"s1", "s2"}
InterviewTypes == {"technical"}

\* What the chat-completion call does: it raises, or it returns a message
\* whose content is None or a text.
LLMReplies == {"Score: 9\nStrengths: Clear"}
LLMOutcomes ==
    {[raises |-> TRUE, content |-> None], [raises |-> FALSE, content |-> None]}
        \cup {[raises |-> FALSE, content |-> Some(t)] : t \in LLMReplies}

FailureText == "Unable to evaluate response."

\* the mutant of _generate_evaluation: no try/except around the call
generate_evaluation_uncaught(llm) ==
    IF llm.raises THEN [raised |-> TRUE, value |-> ""]
    ELSE [raised |-> FALSE,
          value |-> IF llm.content = None THEN "" ELSE llm.content[1]]

\* raised: whether an exception leaves the method; value: what it returns
_generate_evaluation(llm) ==
    IF llm.raises THEN [raised |-> FALSE, value |-> FailureText]
    ELSE [raised |-> FALSE,
          value |-> IF llm.content = None THEN "" ELSE llm.content[1]]

\* self._sessions[session_id] = metrics
Put(map, key, value) ==
    [k \in DOMAIN map \cup {key} |-> IF k = key THEN value ELSE map[k]]

\* self._sessions.get(session_id)
get_session(session_id) ==
    IF session_id \in DOMAIN sessions THEN Some(sessions[session_id]) ELSE None

\* the mutant of start_session: an existing session is kept, not replaced
start_session_keep(session_id, interview_type) ==
    LET fresh == SessionMetrics(session_id, interview_type, clock)
        kept == IF session_id \in DOMAIN sessions THEN sessions[session_id] ELSE fresh
    IN /\ sessions' = Put(sessions, session_id, kept)
       /\ lastCall' = [op |-> "start_session", id |-> session_id,
                       raised |-> FALSE, failed |-> FALSE, result |-> None,
                       prior |-> get_session(session_id)]
       /\ UNCHANGED clock

start_session(session_id, interview_type) ==
    LET fresh == SessionMetrics(session_id, interview_type, clock)
    IN /\ sessions' = Put(sessions, session_id, fresh)
       /\ lastCall' = [op |-> "start_session", id |-> session_id,
                       raised |-> FALSE, failed |-> FALSE, result |-> None,
                       prior |-> get_session(session_id)]
       /\ UNCHANGED clock

\* the mutant of end_session: every session is stamped, not only session_id
end_session_all(session_id) ==
    /\ sessions' = [k \in DOMAIN sessions |->
                       IF session_id \in DOMAIN sessions
                       THEN [sessions[k] EXCEPT !.ended_at = Some(clock)]
                       ELSE sessions[k]]
    /\ lastCall' = [op |-> "end_session", id |-> session_id, raised |-> FALSE,
                    failed |-> FALSE, result |-> None]
    /\ UNCHANGED clock

end_session(session_id) ==
    /\ sessions' =
           IF session_id \in DOMAIN sessions
           THEN [sessions EXCEPT ![session_id].ended_at = Some(clock)]
           ELSE sessions
    /\ lastCall' = [op |-> "end_session", id |-> session_id, raised |-> FALSE,
                    failed |-> FALSE, result |-> None]
    /\ UNCHANGED clock

\* lines 176-177 for each outcome of the LLM call, computed once
Evaluated ==
    [llm \in LLMOutcomes |->
        LET gen == _generate_evaluation(llm)
        IN [raised |-> gen.raised, score |-> _parse_evaluation(gen.value)]]

\* a variant of evaluate_response that opens a session for an unknown id
evaluate_response_opening(session_id, llm) ==
    LET gen == Evaluated[llm]
        score == gen.score
        session == IF session_id \in DOMAIN sessions THEN sessions[session_id]
                   ELSE SessionMetrics(session_id, "behavioral", clock)
    IN /\ Len(session.scores) < MaxScores
       /\ sessions' = Put(sessions, session_id, add_score(session, score))
       /\ lastCall' = [op |-> "evaluate_response", id |-> session_id,
                       raised |-> gen.raised, failed |-> llm.raises,
                       result |-> Some(score)]
       /\ UNCHANGED clock

evaluate_response(session_id, llm) ==
    LET gen == Evaluated[llm]
        score == gen.score
    IN /\ session_id \in DOMAIN sessions =>
              Len(sessions[session_id].scores) < MaxScores
       /\ IF gen.raised
          THEN /\ lastCall' = [op |-> "evaluate_response", id |-> session_id,
                               raised |-> TRUE, failed |-> llm.raises,
                               result |-> None]
               /\ UNCHANGED sessions
          ELSE /\ sessions' =
                      IF session_id \in DOMAIN sessions
                      THEN [sessions EXCEPT ![session_id] = add_score(@, score)]
                      ELSE sessions
               /\ lastCall' = [op |-> "evaluate_response", id |-> session_id,
                               raised |-> FALSE, failed |-> llm.raises,
                               result |-> Some(score)]
       /\ UNCHANGED clock

\* time passes between calls: datetime.now() never goes back
Tick ==
    /\ clock < MaxClock
    /\ clock' = clock + 1
    /\ UNCHANGED <<sessions, lastCall>>

\* the variables of the other specifications, at rest
IdleParse == evaluation = "" /\ appended = 0 /\ parsed = _parse_evaluation("")
IdleSummary == metrics = SessionMetrics("s1", "behavioral", 0) /\ summary = None
IdleRag == collection = <<>> /\ lastQuery = [op |-> "init"]
IdleEval == sessions = [k \in {} |-> None] /\ clock = 0 /\ lastCall = [op |-> "init"]
IdleChunk == documents = <<>> /\ chunked_docs = <<>>  \* no document, no call
IdleLoad == files = <<>> /\ base_path = <<>> /\ lastLoad = [op |-> "init"]  \* no loader yet
IdleStore ==
    /\ _vectorstore = <<>> /\ handles = 0 /\ chroma = <<>> /\ issued = 0
    /\ lastStore = [op |-> "init"]
IdleEntry == jobs = [room \in {} |-> None]  \* no room session started
IdleRace ==
    /\ open_session = <<>> /\ pc = <<>> /\ tmp = <<>> /\ before = <<>>
    /\ overlapped = FALSE
IdleConfig == environ = <<>> /\ settings = <<>> /\ chunker = <<>>  \* no process yet
IdleExt == IdleChunk /\ IdleLoad /\ IdleStore /\ IdleEntry /\ IdleRace /\ IdleConfig

Init == IdleEval /\ IdleParse /\ IdleSummary /\ IdleRag /\ IdleExt

Next ==
    \/ \E id \in SessionIds, t \in InterviewTypes :
           start_session(id, t) /\ UNCHANGED <<parseVars, summaryVars, ragVars, extVars>>
    \/ \E id \in SessionIds :
           end_session(id) /\ UNCHANGED <<parseVars, summaryVars, ragVars, extVars>>
    \/ \E id \in SessionIds, llm \in LLMOutcomes :
           evaluate_response(id, llm) /\ UNCHANGED <<parseVars, summaryVars, ragVars, extVars>>
    \/ Tick /\ UNCHANGED <<parseVars, summaryVars, ragVars, extVars>>

Spec == Init /\ [][Next]_vars

-----------------------------------------------------------------------------
(* The evaluator's claims.                                                 *)

\* C1: every SessionMetrics in the session map has questions_answered =
\* len(scores) and average_score = sum(overall) / len(scores), and
\* average_score = 0.0 while scores is empty.
C1_MetricsConsistent ==
    \A id \in DOMAIN sessions :
        LET m == sessions[id]
        IN /\ m.questions_answered = Len(m.scores)
           /\ IF m.scores = <<>> THEN m.average_score = Zero
              ELSE m.average_score.num * Len(m.scores)
                       = SumOverall(m.scores) * m.average_score.den

C1_Witness ==
    \E id \in DOMAIN sessions :
        /\ Len(sessions[id].scores) = 2
        /\ sessions[id].scores[1].overall # sessions[id].scores[2].overall
        /\ sessions[id].ended_at # None

\* C2: evaluate_response never raises, whatever the session's state, and when
\* the LLM call fails it returns overall 7, the failure text as raw_feedback
\* and empty strengths and improvements.
C2_NeverRaises ==
    lastCall.op = "evaluate_response" =>
        /\ ~lastCall.raised
        /\ lastCall.failed =>
               lastCall.result =
                   Some(ResponseScore(7, <<>>, <<>>, "Unable to evaluate response."))

C2_Witness ==
    /\ lastCall.op = "evaluate_response"
    /\ lastCall.failed
    /\ lastCall.id \in DOMAIN sessions
    /\ sessions[lastCall.id].ended_at # None

\* the four fields the lifecycle sentence is about
Recorded(m) == <<m.scores, m.questions_answered, m.average_score, m.ended_at>>

\* C3 as stated: once ended_at is stamped, no later call changes the session's
\* scores, questions_answered, average_score or ended_at.
C3_ReadOnlyAfterEnd ==
    [][\A id \in DOMAIN sessions :
           sessions[id].ended_at # None =>
               /\ id \in DOMAIN sessions'
               /\ Recorded(sessions'[id]) = Recorded(sessions[id])]_vars

\* C3 as amended: once ended_at is stamped, a call that names another session
\* id changes none of the four fields; a call that names the session itself is
\* not blocked, and evaluate_response then appends exactly the score it returns
\* and leaves ended_at as stamped.
C3_EndedChangedOnlyByOwnCalls ==
    [][\A id \in DOMAIN sessions :
           sessions[id].ended_at # None =>
               /\ lastCall'.id # id =>
                      /\ id \in DOMAIN sessions'
                      /\ Recorded(sessions'[id]) = Recorded(sessions[id])
               /\ (clock' = clock /\ lastCall'.op = "evaluate_response"
                      /\ lastCall'.id = id) =>
                      /\ sessions'[id].scores =
                             Append(sessions[id].scores, lastCall'.result[1])
                      /\ sessions'[id].ended_at = sessions[id].ended_at]_vars

C3_Witness ==
    /\ DOMAIN sessions = SessionIds
    /\ sessions["s1"].ended_at = Some(0)
    /\ Len(sessions["s1"].scores) = 1
    /\ sessions["s2"].started_at = 1
    /\ Len(sessions["s2"].scores) = 1
    /\ lastCall.op = "end_session" /\ lastCall.id = "s2"

\* C18: evaluate_response(id, ...) changes at most the session stored under
\* id: no session is added or removed and every other session is as it was;
\* when id is not in the map the whole map is as it was, and a ResponseScore
\* is returned all the same.
C18_EvaluateFrame ==
    [][lastCall'.op = "evaluate_response" =>
        /\ DOMAIN sessions' = DOMAIN sessions
        /\ \A k \in DOMAIN sessions : k # lastCall'.id => sessions'[k] = sessions[k]
        /\ lastCall'.id \notin DOMAIN sessions =>
            /\ sessions' = sessions
            /\ lastCall'.result # None
            /\ lastCall'.result[1].overall \in ScoreMin..ScoreMax]_vars

\* an unknown id is scored while another session holds a score
C18_Witness ==
    /\ lastCall.op = "evaluate_response"
    /\ lastCall.id = "s2"
    /\ DOMAIN sessions = {"s1"}
    /\ Len(sessions["s1"].scores) = 1
    /\ lastCall.result # None
    /\ lastCall.result[1].overall = 9

\* C19: start_session(id, ...) for an id that has a session, open or ended,
\* puts a fresh SessionMetrics in its place: get_session(id) then has no
\* scores, questions_answered = 0, average_score = 0.0 and no ended_at, and
\* no session of the evaluator holds the scores recorded before.
C19_StartReplaces ==
    (lastCall.op = "start_session" /\ lastCall.prior # None) =>
        LET session == get_session(lastCall.id)
        IN  /\ session # None
            /\ session[1].scores = <<>>
            /\ session[1].questions_answered = 0
            /\ session[1].average_score = Zero
            /\ session[1].ended_at = None
            /\ session[1].session_id = lastCall.id
            /\ \A k \in DOMAIN sessions :
                sessions[k].session_id = lastCall.id => sessions[k].scores = <<>>

\* a session restarted after it was ended with two scores
C19_Witness ==
    /\ lastCall.op = "start_session"
    /\ lastCall.prior # None
    /\ lastCall.prior[1].ended_at # None
    /\ Len(lastCall.prior[1].scores) = 2
    /\ sessions[lastCall.id].scores = <<>>
    /\ sessions[lastCall.id].started_at = 1

\* a session restarted while open
C19_WitnessOpen ==
    /\ lastCall.op = "start_session"
    /\ lastCall.prior # None
    /\ lastCall.prior[1].ended_at = None
    /\ Len(lastCall.prior[1].scores) = 1
    /\ sessions[lastCall.id].scores = <<>>

-----------------------------------------------------------------------------
(* _parse_evaluation on its own: the reply is put together from fragments  *)
(* of the shapes the evaluation prompt asks for, and parsed after each.    *)

Fragments ==
    {"Score: 8", "/10", "\n", "score 3", " (9):", "11",
     "Strengths:", " Clear structure", "Consider: a:b"}

AppendFragment(f) ==
    /\ appended < MaxFrags
    /\ evaluation' = evaluation \o f
    /\ appended' = appended + 1
    /\ parsed' = _parse_evaluation(evaluation')

InitParse == IdleEval /\ IdleParse /\ IdleSummary /\ IdleRag /\ IdleExt

NextParse ==
    \E f \in Fragments :
        AppendFragment(f) /\ UNCHANGED <<evalVars, summaryVars, ragVars, extVars>>

SpecParse == InitParse /\ [][NextParse]_vars

\* a word that int() accepts, after the strip, as a score in 1..10
ValidWord(w) ==
    LET n == ParseInt(StripChars(w, CharsOf("():/"))) IN n.ok /\ n.val \in 1..10

\* a line the score scan looks at
ScoreLine(line) == Contains(Lower(line), "score") \/ Contains(line, "/10")

\* the N of a word written N/10
OutOfTen(w) ==
    IF Len(w) > 3 /\ SubSeq(w, Len(w) - 2, Len(w)) = "/10"
    THEN ParseInt(SubSeq(w, 1, Len(w) - 3))
    ELSE [ok |-> FALSE, val |-> 0]

\* C4: "Score: 8/10" gives overall 8; more generally a one-line reply that
\* mentions "score" or "/10" and writes its score as N/10, N in 1..10, gives N.
C4_ScoreOutOfTen ==
    LET words == Words(evaluation)
    IN /\ evaluation = "Score: 8/10" => parsed.overall = 8
       /\ (~Contains(evaluation, "\n") /\ ScoreLine(evaluation)) =>
              \A j \in 1..Len(words) :
                  (/\ OutOfTen(words[j]).ok
                   /\ OutOfTen(words[j]).val \in 1..10
                   /\ \A k \in 1..Len(words) : ~ValidWord(words[k]))
                      => parsed.overall = OutOfTen(words[j]).val

\* C5: overall is in 1..10; it is 7 when no line qualifies, and otherwise the
\* first valid word of the last line that is a score line and has a valid word.
C5_LastQualifyingLineWins ==
    LET lines == Split(evaluation, "\n")
        hasValid(i) == \E j \in 1..Len(Words(lines[i])) : ValidWord(Words(lines[i])[j])
        Q == {i \in 1..Len(lines) : ScoreLine(lines[i]) /\ hasValid(i)}
    IN /\ parsed.overall \in 1..10
       /\ IF Q = {} THEN parsed.overall = 7
          ELSE LET i == CHOOSE q \in Q : \A r \in Q : r <= q
                   ws == Words(lines[i])
                   j == CHOOSE v \in 1..Len(ws) :
                            /\ ValidWord(ws[v])
                            /\ \A u \in 1..(v - 1) : ~ValidWord(ws[u])
               IN parsed.overall = ParseInt(StripChars(ws[j], CharsOf("():/"))).val

C5_Witness ==
    /\ evaluation = "Score: 8\nscore 3 (9):"
    /\ parsed.overall = 3

\* the lines that contribute a strength, and those that contribute an improvement
StrengthLine(line) ==
    /\ Contains(Lower(line), "strength")
    /\ Contains(line, ":")
    /\ Strip(AfterFirst(line, ":")) # ""

ImprovementLine(line) ==
    /\ \E w \in {"improve", "suggestion", "consider"} : Contains(Lower(line), w)
    /\ Contains(line, ":")
    /\ Strip(AfterFirst(line, ":")) # ""

Suffixes(lines) == [k \in 1..Len(lines) |-> Strip(AfterFirst(lines[k], ":"))]

\* C6: strengths holds, in line order, the trimmed text after the first colon
\* of every line with "strength" and a colon, improvements the same for
\* "improve", "suggestion" or "consider"; an empty text contributes nothing;
\* "Strengths: Clear structure" gives strengths = ["Clear structure"].
C6_FeedbackLines ==
    LET lines == Split(evaluation, "\n")
    IN /\ parsed.strengths = Suffixes(SelectSeq(lines, StrengthLine))
       /\ parsed.improvements = Suffixes(SelectSeq(lines, ImprovementLine))
       /\ evaluation = "Strengths: Clear structure" =>
              parsed.strengths = <<"Clear structure">>

C6_Witness ==
    /\ evaluation = "Strengths: Clear structure\nConsider: a:b"
    /\ parsed.strengths = <<"Clear structure">>
    /\ parsed.improvements = <<"a:b">>

-----------------------------------------------------------------------------
(* to_summary on its own: one session is given scores, and its summary is  *)
(* taken after each.                                                       *)

TrendOveralls == {5, 6, 7, 9}
StrengthLists ==
    {<<>>, <<"a">>, <<"a", "b">>, <<"b", "a">>, <<"c", "d">>, <<"e", "f", "a">>, <<"g">>}
ImprovementLists == {<<>>, <<"x", "y", "z">>, <<"u", "v", "w", "x">>}

AddScore(score, limit) ==
    /\ Len(metrics.scores) < limit
    /\ metrics' = add_score(metrics, score)
    /\ summary' = Some(to_summary(metrics'))

InitSummary == IdleEval /\ IdleParse /\ IdleSummary /\ IdleRag /\ IdleExt

NextTrend ==
    \E o \in TrendOveralls :
        /\ AddScore(ResponseScore(o, <<>>, <<>>, ""), MaxTrend)
        /\ UNCHANGED <<evalVars, parseVars, ragVars, extVars>>

SpecTrend == InitSummary /\ [][NextTrend]_vars

NextFeedback ==
    \E st \in StrengthLists, im \in ImprovementLists :
        /\ AddScore(ResponseScore(DefaultScore, st, im, ""), MaxFeedback)
        /\ UNCHANGED <<evalVars, parseVars, ragVars, extVars>>

SpecFeedback == InitSummary /\ [][NextFeedback]_vars

Overalls(scores) == [i \in 1..Len(scores) |-> scores[i].overall]

RECURSIVE SumFromTo(_, _, _)
SumFromTo(f, a, b) == IF a > b THEN 0 ELSE f[a] + SumFromTo(f, a + 1, b)

FirstDistinct(all, top) ==
    LET distinct == {all[i] : i \in 1..Len(all)}
        firstAt(x) == CHOOSE i \in 1..Len(all) : all[i] = x /\ \A j \in 1..(i - 1) : all[j] # x
    IN /\ Len(top) <= 5
       /\ Len(top) = Min(5, Cardinality(distinct))
       /\ \A i \in 1..Len(top) : top[i] \in distinct
       /\ \A i, j \in 1..Len(top) : i < j => firstAt(top[i]) < firstAt(top[j])
       /\ \A x \in distinct :
              (\A i \in 1..Len(top) : top[i] # x) =>
                  \A i \in 1..Len(top) : firstAt(top[i]) < firstAt(x)

RECURSIVE Joined(_, _, _)
Joined(scores, field_name, i) ==
    IF i > Len(scores) THEN <<>>
    ELSE scores[i][field_name] \o Joined(scores, field_name, i + 1)

-----------------------------------------------------------------------------
(* src/rag/retriever.py: ContextRetriever over the vector store.           *)
(* collection holds the stored chunks with their distance to the query, in *)
(* the order the store ranks them: by increasing distance.  Distances and  *)
(* the threshold are in hundredths.                                        *)

\* _enhance_metadata's classification of a chunk's text
ContentTypeOf(content) ==
    IF StartsWith(content, "Q:") \/ StartsWith(content, "**Q:") THEN "qa_pair"
    ELSE IF StartsWith(content, "#") THEN "heading"
    ELSE "text"

Document(page_content, category) ==
    [page_content |-> page_content,
     metadata |-> [category |-> category, content_type |-> ContentTypeOf(page_content)]]

Categories == {"technical", "behavioral"}
Contents == {"Q: Why?\nQ:\n**Q: When?**", "Intro\nQ: What?"}
Distances == {20, 30, 35}

\* what ingestion may store: every text at every distance under one category,
\* and one chunk under the other
Chunks ==
    {[doc |-> Document(c, "technical"), distance |-> d] : c \in Contents, d \in Distances}
        \cup {[doc |-> Document("Intro\nQ: What?", "behavioral"), distance |-> 20]}

\* ContextRetriever.__init__'s defaults
DefaultK == 4
ScoreThreshold == 70
One == 100

\* the store takes a chunk in and ranks it by its distance to the query
Ingest(chunk) ==
    LET closer == SelectSeq(collection, LAMBDA e : e.distance <= chunk.distance)
        farther == SelectSeq(collection, LAMBDA e : e.distance > chunk.distance)
    IN /\ Len(collection) < MaxDocs
       /\ collection' = closer \o <<chunk>> \o farther
       /\ UNCHANGED lastQuery

\* the store's answer: the k best-ranked chunks that match the filter
similarity_search_with_score(k, filter_dict) ==
    LET matching ==
            SelectSeq(collection,
                      LAMBDA e : filter_dict = None
                                     \/ e.doc.metadata.category = filter_dict[1])
    IN SubSeq(matching, 1, Min(k, Len(matching)))

\* the mutant of Qualifies: the comparison is strict
QualifiesStrict(score) == score < One - ScoreThreshold

\* score <= (1 - self.score_threshold)
Qualifies(score) == score <= One - ScoreThreshold

\* the mutant of retrieve: a k of 0 is taken as given, only an absent k is
\* replaced by the default
retrieve_zero_as_given(category, k) ==
    LET num_results == IF k = None THEN DefaultK ELSE k[1]
        filter_dict == category
        results == similarity_search_with_score(num_results * 2, filter_dict)
        kept == SelectSeq(results, LAMBDA r : Qualifies(r.distance))
        filtered_docs ==
            [i \in 1..Min(num_results, Len(kept)) |-> kept[i].doc]
    IN [requested |-> num_results * 2, candidates |-> results, docs |-> filtered_docs]

\* retrieve(query, category, k): category and k are Optional; what is asked of
\* the store, what it answers, and what is returned
retrieve(category, k) ==
    LET num_results == IF k = None \/ k = Some(0) THEN DefaultK ELSE k[1]
        filter_dict == category
        results == similarity_search_with_score(num_results * 2, filter_dict)
        kept == SelectSeq(results, LAMBDA r : Qualifies(r.distance))
        filtered_docs ==
            [i \in 1..Min(num_results, Len(kept)) |-> kept[i].doc]
    IN [requested |-> num_results * 2, candidates |-> results, docs |-> filtered_docs]

\* line.replace("**Q:", "").replace("Q:", "").strip()
QuestionOf(line) == Strip(Remove(Remove(line, "**Q:"), "Q:"))

RECURSIVE QuestionsOfLines(_, _)
QuestionsOfLines(lines, i) ==
    IF i > Len(lines) THEN <<>>
    ELSE IF (StartsWith(lines[i], "Q:") \/ StartsWith(lines[i], "**Q:"))
            /\ QuestionOf(lines[i]) # ""
    THEN <<QuestionOf(lines[i])>> \o QuestionsOfLines(lines, i + 1)
    ELSE QuestionsOfLines(lines, i + 1)

\* the mutant of QuestionsOfDoc: the content_type of the document is not looked at
QuestionsOfAnyDoc(doc) == QuestionsOfLines(Split(doc.page_content, "\n"), 1)

\* the body of the loop over the retrieved documents
QuestionsOfDoc(doc) ==
    IF doc.metadata.content_type = "qa_pair"
    THEN QuestionsOfLines(Split(doc.page_content, "\n"), 1)
    ELSE <<>>

RECURSIVE QuestionsOfDocs(_, _)
QuestionsOfDocs(docs, i) ==
    IF i > Len(docs) THEN <<>>
    ELSE QuestionsOfDoc(docs[i]) \o QuestionsOfDocs(docs, i + 1)

\* get_sample_questions(interview_type, topic, count), count >= 0
get_sample_questions(interview_type, count) ==
    LET docs == retrieve(Some(interview_type), Some(count)).docs
        questions == QuestionsOfDocs(docs, 1)
    IN [docs |-> docs, questions |-> SubSeq(questions, 1, Min(count, Len(questions)))]

Retrieve(category, k) ==
    LET r == retrieve(category, k)
    IN /\ lastQuery' = [op |-> "retrieve", category |-> category, k |-> k,
                        requested |-> r.requested, candidates |-> r.candidates,
                        result |-> r.docs]
       /\ UNCHANGED collection

GetSampleQuestions(interview_type, count) ==
    LET r == get_sample_questions(interview_type, count)
    IN /\ lastQuery' = [op |-> "get_sample_questions", category |-> Some(interview_type),
                        k |-> Some(count), docs |-> r.docs, result |-> r.questions]
       /\ UNCHANGED collection

InitRag == IdleEval /\ IdleParse /\ IdleSummary /\ IdleRag /\ IdleExt

NextRag ==
    \/ \E chunk \in Chunks :
           Ingest(chunk) /\ UNCHANGED <<evalVars, parseVars, summaryVars, extVars>>
    \/ \E cat \in {None} \cup {Some(c) : c \in Categories},
          k \in {None} \cup {Some(n) : n \in 0..MaxK} :
           Retrieve(cat, k) /\ UNCHANGED <<evalVars, parseVars, summaryVars, extVars>>
    \/ \E t \in Categories, count \in 0..MaxK :
           GetSampleQuestions(t, count) /\ UNCHANGED <<evalVars, parseVars, summaryVars, extVars>>

SpecRag == InitRag /\ [][NextRag]_vars

\* the candidates that pass: 1 - d >= 0.7, in hundredths
Passing(candidates) == {i \in 1..Len(candidates) : 100 - candidates[i].distance >= 70}

\* the documents of the first n passing candidates, in rank order
FirstPassing(candidates, n) ==
    LET P == Passing(candidates)
        nth(j) == CHOOSE i \in P : Cardinality({p \in P : p < i}) = j - 1
    IN [j \in 1..Min(n, Cardinality(P)) |-> candidates[nth(j)].doc]

RetrieveAsClaimed(n) ==
    /\ lastQuery.requested = 2 * n
    /\ Len(lastQuery.candidates) <= lastQuery.requested
    /\ lastQuery.result = FirstPassing(lastQuery.candidates, n)
    /\ Len(lastQuery.result) <= n
    /\ \A i \in 1..Len(lastQuery.candidates) :
           /\ lastQuery.candidates[i].distance = 35 => i \notin Passing(lastQuery.candidates)
           /\ lastQuery.candidates[i].distance = 20 => i \in Passing(lastQuery.candidates)

Offered(doc) ==
    IF doc.metadata.content_type # "qa_pair" THEN <<>>
    ELSE LET marked == SelectSeq(Split(doc.page_content, "\n"),
                                 LAMBDA l : StartsWith(l, "Q:") \/ StartsWith(l, "**Q:"))
             texts == [i \in 1..Len(marked) |-> Strip(Remove(Remove(marked[i], "**Q:"), "Q:"))]
         IN SelectSeq(texts, LAMBDA q : q # "")

RECURSIVE OfferedBy(_)
OfferedBy(docs) == IF docs = <<>> THEN <<>> ELSE Offered(Head(docs)) \o OfferedBy(Tail(docs))

\* C10: get_sample_questions returns at most count non-empty strings, in
\* document-then-line order, each from a line beginning with "Q:" or "**Q:" of
\* a retrieved qa_pair document; other retrieved documents contribute nothing.
C10_SampleQuestions ==
    lastQuery.op = "get_sample_questions" =>
        LET count == lastQuery.k[1]
            all == OfferedBy(lastQuery.docs)
        IN /\ Len(lastQuery.result) <= count
           /\ \A i \in 1..Len(lastQuery.result) : lastQuery.result[i] # ""
           /\ lastQuery.result = SubSeq(all, 1, Min(count, Len(all)))

C10_Witness ==
    /\ lastQuery.op = "get_sample_questions"
    /\ lastQuery.k = Some(2)
    /\ Len(lastQuery.docs) = 2
    /\ lastQuery.docs[1].metadata.content_type = "text"
    /\ Contains(lastQuery.docs[1].page_content, "\nQ: What?")
    /\ lastQuery.result = <<"Why?", "When?**">>

\* A store that already holds up to MaxRanked chunks, ranked by increasing
\* distance, so that more than default_k chunks can pass the threshold.
MaxRanked == 5

Ranked(entries) ==
    \A i \in 1..Len(entries) - 1 : entries[i].distance <= entries[i + 1].distance

\* the chunks such a store holds: the question text near and far, the plain
\* text in between, and the chunk of the other category
RankedChunks ==
    {c \in Chunks : \/ c.doc.metadata.category = "behavioral"
                    \/ (c.distance = 30) = (c.doc.metadata.content_type = "text")}

RankedCollections ==
    UNION {{entries \in [1..n -> RankedChunks] : Ranked(entries)} : n \in 0..MaxRanked}

InitZeroK ==
    /\ IdleEval /\ IdleParse /\ IdleSummary /\ IdleExt
    /\ collection \in RankedCollections
    /\ lastQuery = [op |-> "init"]

NextZeroK ==
    \/ \E cat \in {None} \cup {Some(c) : c \in Categories},
          k \in {None} \cup {Some(n) : n \in 0..MaxK} :
           Retrieve(cat, k) /\ UNCHANGED <<evalVars, parseVars, summaryVars, extVars>>
    \/ \E t \in Categories, count \in 0..MaxK :
           GetSampleQuestions(t, count) /\ UNCHANGED <<evalVars, parseVars, summaryVars, extVars>>

SpecZeroK == InitZeroK /\ [][NextZeroK]_vars

\* the stored chunks of a category, in rank order (all of them for no category)
Matching(category) ==
    SelectSeq(collection,
              LAMBDA e : category = None \/ e.doc.metadata.category = category[1])

\* what a call without k is to return: the store is asked for 2 * default_k
\* candidates and the first default_k passing ones are kept
DefaultAnswer(category) ==
    LET asked == 2 * 4
        all == Matching(category)
        candidates == SubSeq(all, 1, Min(asked, Len(all)))
    IN [requested |-> asked, candidates |-> candidates,
        docs |-> FirstPassing(candidates, 4)]

C21_WitnessQuestions ==
    /\ lastQuery.op = "get_sample_questions"
    /\ lastQuery.k = Some(0)
    /\ Len(lastQuery.docs) = 4
    /\ OfferedBy(lastQuery.docs) # <<>>
    /\ lastQuery.result = <<>>

-----------------------------------------------------------------------------
(* src/rag/chunker.py: SemanticChunker.  A document is [page_content,      *)
(* metadata]; metadata is a function from the keys present to their values.*)
(* The text splitter is the langchain library's: what split_text returns   *)
(* for a long text is chosen among the ways of cutting it into pieces of   *)
(* at most chunk_size characters, each stripped, empty pieces dropped.     *)

ChunkSize == 4
MaxInput == 2
MaxCuts == 2

SourceNames == <<"a.md", "b.md", "c.md", "d.md">>
ChunkContents == {"ab", " ab\n", "Q: a", "ab cd", "# a b c", "  \n  "}

LoadedDocument(content, source) ==
    [page_content |-> content, metadata |-> [source |-> source]]

\* a variant of _enhance_metadata that measures chunk_size and is_last_chunk
\* one off
enhance_metadata_off(document, chunk_index, total_chunks) ==
    [page_content |-> document.page_content,
     metadata |->
        [chunk_index |-> chunk_index,
         total_chunks |-> total_chunks,
         chunk_size |-> Len(document.page_content) + 1,
         is_first_chunk |-> chunk_index = 0,
         is_last_chunk |-> chunk_index = total_chunks,
         content_type |-> ContentTypeOf(document.page_content)]
        @@ document.metadata]

_enhance_metadata(document, chunk_index, total_chunks) ==
    [page_content |-> document.page_content,
     metadata |->
        [chunk_index |-> chunk_index,
         total_chunks |-> total_chunks,
         chunk_size |-> Len(document.page_content),
         is_first_chunk |-> chunk_index = 0,
         is_last_chunk |-> chunk_index = total_chunks - 1,
         content_type |-> ContentTypeOf(document.page_content)]
        @@ document.metadata]

\* the pieces of content from position start on, each ending at a cut
RECURSIVE PiecesFrom(_, _, _)
PiecesFrom(content, start, cuts) ==
    LET ahead == {c \in cuts : c >= start}
    IN  IF ahead = {} THEN <<SubSeq(content, start, Len(content))>>
        ELSE LET c == CHOOSE x \in ahead : \A y \in ahead : x <= y
             IN  <<SubSeq(content, start, c)>> \o PiecesFrom(content, c + 1, cuts)

RECURSIVE StrippedNonEmpty(_)
StrippedNonEmpty(pieces) ==
    IF pieces = <<>> THEN <<>>
    ELSE LET text == Strip(Head(pieces))
         IN  (IF text = "" THEN <<>> ELSE <<text>>) \o StrippedNonEmpty(Tail(pieces))

\* what split_text may return for content
Splittings(content) ==
    {StrippedNonEmpty(PiecesFrom(content, 1, cuts)) :
        cuts \in {cs \in SUBSET (1..(Len(content) - 1)) :
                     /\ Cardinality(cs) <= MaxCuts
                     /\ \A i \in 1..Len(PiecesFrom(content, 1, cs)) :
                            Len(PiecesFrom(content, 1, cs)[i]) <= ChunkSize}}

_chunk_single_document(document, chunks) ==
    IF Len(document.page_content) <= ChunkSize
    THEN <<_enhance_metadata(document, 0, 1)>>
    ELSE [i \in 1..Len(chunks) |->
            _enhance_metadata([page_content |-> Strip(chunks[i]),
                               metadata |-> document.metadata],
                              i - 1, Len(chunks))]

\* the chunks of docs, splits[i] being what split_text returns for docs[i]
RECURSIVE ChunkEach(_, _)
ChunkEach(docs, splits) ==
    IF docs = <<>> THEN <<>>
    ELSE _chunk_single_document(Head(docs), Head(splits))
            \o ChunkEach(Tail(docs), Tail(splits))

\* a short document is returned itself, with its metadata enhanced in place
AfterChunking(document) ==
    IF Len(document.page_content) <= ChunkSize
    THEN _enhance_metadata(document, 0, 1)
    ELSE document

chunk_documents(docs, splits) ==
    /\ chunked_docs = None
    /\ documents' = [i \in 1..Len(docs) |-> AfterChunking(docs[i])]
    /\ chunked_docs' = Some(ChunkEach(docs, splits))

\* one more document comes out of the loader
LoadDocument(content) ==
    /\ chunked_docs = None
    /\ Len(documents) < Min(MaxInput, Len(SourceNames))
    /\ documents' = Append(documents,
                           LoadedDocument(content, SourceNames[Len(documents) + 1]))
    /\ UNCHANGED chunked_docs

\* what split_text may return for each text of the model, computed once;
\* it is called for long documents only
SplitterAnswers ==
    [content \in ChunkContents |->
        IF Len(content) <= ChunkSize THEN {<<>>} ELSE Splittings(content)]

\* what split_text may return for each document of docs
RECURSIVE SplitChoices(_)
SplitChoices(docs) ==
    IF docs = <<>> THEN {<<>>}
    ELSE {<<chunks>> \o rest : chunks \in SplitterAnswers[Head(docs).page_content],
                               rest \in SplitChoices(Tail(docs))}

InitChunk == IdleEval /\ IdleParse /\ IdleSummary /\ IdleRag /\ IdleExt

NextChunk ==
    \/ \E content \in ChunkContents :
           LoadDocument(content) /\ UNCHANGED exceptChunk
    \/ \E splits \in SplitChoices(documents) :
           chunk_documents(documents, splits) /\ UNCHANGED exceptChunk

SpecChunk == InitChunk /\ [][NextChunk]_vars

\* the chunks the call returned
Emitted == IF chunked_docs = None THEN <<>> ELSE chunked_docs[1]

\* the positions in the result of the chunks of documents[i]
ChunksOf(i) ==
    {p \in 1..Len(Emitted) : Emitted[p].metadata.source = documents[i].metadata.source}

\* C11 (as stated): every document of at most chunk_size characters gives
\* exactly one chunk, with chunk_index 0 and total_chunks 1, whose text is the
\* document's content stripped of leading and trailing whitespace.
C11_ShortDocumentTrimmed ==
    chunked_docs # None =>
    \A i \in 1..Len(documents) :
        Len(documents[i].page_content) <= ChunkSize =>
            /\ Cardinality(ChunksOf(i)) = 1
            /\ \A p \in ChunksOf(i) :
                /\ Emitted[p].metadata.chunk_index = 0
                /\ Emitted[p].metadata.total_chunks = 1
                /\ Emitted[p].page_content = Strip(documents[i].page_content)

\* how many chunks of documents[i] come before position p
RankIn(i, p) == Cardinality({q \in ChunksOf(i) : q < p})

\* C12: the chunks of one document carry chunk_index 0, 1, ..., n-1 in the
\* order they are emitted and total_chunks n, so chunk_index < total_chunks;
\* is_first_chunk holds exactly at index 0 and is_last_chunk exactly at index
\* total_chunks - 1; chunk_size is the length of the emitted text; the chunks
\* of an earlier document come before those of a later one.
C12_ChunkMetadata ==
    chunked_docs # None =>
    /\ \A i \in 1..Len(documents) : \A p \in ChunksOf(i) :
        LET m == Emitted[p].metadata
        IN  /\ m.chunk_index = RankIn(i, p)
            /\ m.total_chunks = Cardinality(ChunksOf(i))
            /\ m.chunk_index < m.total_chunks
            /\ m.is_first_chunk <=> m.chunk_index = 0
            /\ m.is_last_chunk <=> m.chunk_index = m.total_chunks - 1
            /\ m.chunk_size = Len(Emitted[p].page_content)
    /\ \A i, j \in 1..Len(documents) : \A p \in ChunksOf(i) : \A q \in ChunksOf(j) :
        i < j => p < q
    /\ \A p \in 1..Len(Emitted) : \E i \in 1..Len(documents) : p \in ChunksOf(i)

C12_Witness ==
    /\ chunked_docs # None
    /\ Len(documents) = 2
    /\ Cardinality(ChunksOf(1)) = 3
    /\ Cardinality(ChunksOf(2)) = 2
    /\ Emitted[3].metadata.chunk_index = 2
    /\ Emitted[3].metadata.is_last_chunk
    /\ ~Emitted[3].metadata.is_first_chunk
    /\ Emitted[4].metadata.chunk_index = 0
    /\ Emitted[4].metadata.is_first_chunk
    /\ C12_ChunkMetadata

-----------------------------------------------------------------------------
(* src/rag/loader.py: DocumentLoader.  A path is [absolute, parts]; the    *)
(* file a path names is found at its location, the parts below the root    *)
(* with the working directory put in front of a relative path.  Each       *)
(* location of the knowledge base holds no file ("absent"), a file that    *)
(* reads and parses ("readable"), one whose reading or parsing raises      *)
(* ("unreadable"), or a file in a directory that can be listed but not     *)
(* searched ("locked"), for which stat() raises PermissionError.           *)

MaxFiles == 2

Path(absolute, parts) == [absolute |-> absolute, parts |-> parts]
Cwd == <<"srv">>
Location(path) == IF path.absolute THEN path.parts ELSE Cwd \o path.parts

\* pathlib's a / b
Join(a, b) == IF b.absolute THEN b ELSE Path(a.absolute, a.parts \o b.parts)

RECURSIVE JoinParts(_)
JoinParts(parts) ==
    IF Len(parts) = 1 THEN parts[1] ELSE parts[1] \o "/" \o JoinParts(Tail(parts))

\* str(path)
Str(path) == (IF path.absolute THEN "/" ELSE "") \o JoinParts(path.parts)

Name(path) == path.parts[Len(path.parts)]

\* path.suffix: from the last dot of the name on, unless that dot starts or
\* ends the name
Suffix(name) ==
    LET dots == {i \in 2..(Len(name) - 1) : Char(name, i) = "."}
    IN  IF dots = {} THEN ""
        ELSE SubSeq(name, CHOOSE i \in dots : \A j \in dots : j <= i, Len(name))

SUPPORTED_EXTENSIONS == {".md", ".txt", ".pdf"}

Locations ==
    <<<<"srv", "knowledge", "notes.md">>,
      <<"srv", "knowledge", "technical", "arrays.md">>,
      <<"srv", "knowledge", "technical", "deep", "trees.txt">>,
      <<"srv", "knowledge", "behavioral", "star.pdf">>,
      <<"srv", "knowledge", "readme.rst">>>>

Directories ==
    {<<"srv", "knowledge">>, <<"srv", "knowledge", "technical">>,
     <<"srv", "knowledge", "technical", "deep">>, <<"srv", "knowledge", "behavioral">>}

Conditions == {"readable", "unreadable", "locked"}

LocationSet == {Locations[i] : i \in 1..Len(Locations)}

FileSystems ==
    {fs \in [LocationSet -> Conditions \cup {"absent"}] :
        Cardinality({l \in LocationSet : fs[l] # "absent"}) <= MaxFiles}

BasePaths == {Path(FALSE, <<"knowledge">>), Path(TRUE, <<"srv", "knowledge">>)}

TextContent == "Q: a\n"
PdfPages == <<"Tell me about", " \n">>

\* os.stat of the file a path names
StatOf(path) ==
    IF Location(path) \in LocationSet THEN files[Location(path)] ELSE "absent"

_resolve_path(path) == IF path.absolute THEN path ELSE Join(base_path, path)

\* path.relative_to(base_path): None where pathlib raises ValueError
RelativeTo(path, base) ==
    IF /\ path.absolute = base.absolute
       /\ Len(base.parts) <= Len(path.parts)
       /\ SubSeq(path.parts, 1, Len(base.parts)) = base.parts
    THEN Some(SubSeq(path.parts, Len(base.parts) + 1, Len(path.parts)))
    ELSE None

\* a variant of _extract_category that takes the folder the file is in
extract_category_parent(path) ==
    LET relative == RelativeTo(path, base_path)
    IN  IF relative # None /\ Len(relative[1]) > 1
        THEN relative[1][Len(relative[1]) - 1]
        ELSE "general"

_extract_category(path) ==
    LET relative == RelativeTo(path, base_path)
    IN  IF relative # None /\ Len(relative[1]) > 1 THEN relative[1][1] ELSE "general"

_load_text(path) ==
    <<[page_content |-> TextContent,
       metadata |-> [source |-> Str(path),
                     filename |-> Name(path),
                     category |-> _extract_category(path),
                     file_type |-> Lower(Suffix(Name(path)))]]>>

RECURSIVE PdfDocuments(_, _, _)
PdfDocuments(path, pages, i) ==
    IF i > Len(pages) THEN <<>>
    ELSE (IF Strip(pages[i]) # ""
          THEN <<[page_content |-> pages[i],
                  metadata |-> [source |-> Str(path),
                                filename |-> Name(path),
                                category |-> _extract_category(path),
                                file_type |-> ".pdf",
                                page |-> i]]>>
          ELSE <<>>) \o PdfDocuments(path, pages, i + 1)

_load_pdf(path) == PdfDocuments(path, PdfPages, 1)

Returned(value) == [raised |-> FALSE, value |-> value]
Raised == [raised |-> TRUE, value |-> <<>>]

load_file(file_path) ==
    LET path == _resolve_path(file_path)
        extension == Lower(Suffix(Name(path)))
    IN  IF StatOf(path) = "locked" THEN Raised          \* path.exists() raises
        ELSE IF StatOf(path) = "absent" THEN Returned(<<>>)
        ELSE IF extension \notin SUPPORTED_EXTENSIONS THEN Returned(<<>>)
        ELSE IF StatOf(path) = "unreadable" THEN Returned(<<>>)  \* except Exception
        ELSE IF extension = ".pdf" THEN Returned(_load_pdf(path))
        ELSE Returned(_load_text(path))

\* target_dir.glob(pattern + ext): the files below target_dir (its children
\* when not recursive) whose name ends in ext, as paths that start with
\* target_dir, in the order the directory lists them
RECURSIVE GlobFrom(_, _, _, _)
GlobFrom(target_dir, recursive, ext, i) ==
    IF i > Len(Locations) THEN <<>>
    ELSE LET loc == Locations[i]
             at == Location(target_dir)
             below == /\ Len(loc) > Len(at)
                      /\ SubSeq(loc, 1, Len(at)) = at
                      /\ recursive \/ Len(loc) = Len(at) + 1
         IN  (IF files[loc] # "absent" /\ below /\ Suffix(loc[Len(loc)]) = ext
              THEN <<Path(target_dir.absolute,
                          target_dir.parts \o SubSeq(loc, Len(at) + 1, Len(loc)))>>
              ELSE <<>>) \o GlobFrom(target_dir, recursive, ext, i + 1)

Glob(target_dir, recursive, ext) == GlobFrom(target_dir, recursive, ext, 1)

\* documents.extend(self.load_file(file_path)) for each path, in order
RECURSIVE LoadEach(_)
LoadEach(paths) ==
    IF paths = <<>> THEN Returned(<<>>)
    ELSE LET docs == load_file(Head(paths))
             rest == LoadEach(Tail(paths))
         IN  IF docs.raised \/ rest.raised THEN Raised
             ELSE Returned(docs.value \o rest.value)

\* directory is None or Some(path); exts is the order in which the set
\* SUPPORTED_EXTENSIONS is iterated
load_directory(directory, recursive, exts) ==
    LET target_dir == IF directory # None THEN _resolve_path(directory[1]) ELSE base_path
    IN  IF Location(target_dir) \notin Directories THEN Returned(<<>>)
        ELSE LoadEach(Glob(target_dir, recursive, exts[1])
                        \o Glob(target_dir, recursive, exts[2])
                        \o Glob(target_dir, recursive, exts[3]))

FilePaths ==
    {Path(FALSE, <<"notes.md">>), Path(FALSE, <<"technical", "arrays.md">>),
     Path(FALSE, <<"technical", "deep", "trees.txt">>),
     Path(FALSE, <<"behavioral", "star.pdf">>), Path(FALSE, <<"readme.rst">>),
     Path(FALSE, <<"missing.md">>),
     Path(TRUE, <<"srv", "knowledge", "technical", "arrays.md">>),
     Path(TRUE, <<"srv", "knowledge", "notes.md">>)}

DirectoryArgs ==
    {None, Some(Path(FALSE, <<"technical">>)), Some(Path(TRUE, <<"srv", "knowledge">>)),
     Some(Path(FALSE, <<"nowhere">>))}

ExtensionOrders ==
    {exts \in [1..3 -> SUPPORTED_EXTENSIONS] : \A i, j \in 1..3 : i # j => exts[i] # exts[j]}

LoadFile(file_path) ==
    /\ lastLoad' = [op |-> "load_file", path |-> Some(file_path), recursive |-> FALSE,
                    outcome |-> load_file(file_path)]
    /\ UNCHANGED <<files, base_path>>

LoadDirectory(directory, recursive, exts) ==
    /\ lastLoad' = [op |-> "load_directory", path |-> directory, recursive |-> recursive,
                    outcome |-> load_directory(directory, recursive, exts)]
    /\ UNCHANGED <<files, base_path>>

\* a loader over any knowledge base of at most MaxFiles files
InitLoad ==
    /\ IdleEval /\ IdleParse /\ IdleSummary /\ IdleRag
    /\ IdleChunk /\ IdleStore /\ IdleEntry /\ IdleRace /\ IdleConfig
    /\ files \in FileSystems
    /\ base_path \in BasePaths
    /\ lastLoad = [op |-> "init"]

NextLoad ==
    \/ \E file_path \in FilePaths : LoadFile(file_path) /\ UNCHANGED exceptLoad
    \/ \E directory \in DirectoryArgs : \E recursive \in BOOLEAN :
       \E exts \in ExtensionOrders :
           LoadDirectory(directory, recursive, exts) /\ UNCHANGED exceptLoad

SpecLoad == InitLoad /\ [][NextLoad]_vars

\* the file names under the directory a load_directory call scanned that end
\* in one of the supported extensions and hold a readable file
ReadableUnder(directory, recursive) ==
    LET target_dir == IF directory # None THEN _resolve_path(directory[1]) ELSE base_path
        at == Location(target_dir)
    IN  {loc[Len(loc)] : loc \in
            {l \in LocationSet :
                /\ files[l] = "readable"
                /\ Suffix(l[Len(l)]) \in SUPPORTED_EXTENSIONS
                /\ Len(l) > Len(at) /\ SubSeq(l, 1, Len(at)) = at
                /\ recursive \/ Len(l) = Len(at) + 1}}

\* C13 (as stated): load_file returns a list and raises for no path; the list
\* is empty when the file does not exist, when its extension is not .md, .txt
\* or .pdf, and when reading or parsing it raises; load_directory raises
\* neither and returns the documents of every file it finds that loads.
C13_LoadNeverRaises ==
    /\ lastLoad.op = "load_file" =>
        LET path == _resolve_path(lastLoad.path[1])
        IN  /\ ~lastLoad.outcome.raised
            /\ (\/ StatOf(path) \in {"absent", "unreadable"}
                \/ Lower(Suffix(Name(path))) \notin SUPPORTED_EXTENSIONS)
                    => lastLoad.outcome.value = <<>>
    /\ lastLoad.op = "load_directory" =>
        /\ ~lastLoad.outcome.raised
        /\ \A name \in ReadableUnder(lastLoad.path, lastLoad.recursive) :
            \E i \in 1..Len(lastLoad.outcome.value) :
                lastLoad.outcome.value[i].metadata.filename = name

\* the parts below the base of the files of the knowledge base
BelowBase == {SubSeq(loc, 3, Len(loc)) : loc \in LocationSet}

-----------------------------------------------------------------------------
(* src/rag/vectorstore.py: VectorStoreManager.  The Chroma handles are     *)
(* numbered in the order they are created; constructing one gets or        *)
(* creates the collection.  The ids the store generates are numbered in    *)
(* the order they are generated, one for each document inserted.           *)

MaxHandles == 2
MaxAdd == 3
MaxBatch == 2
MaxIds == 4

DefaultBatchSize == 100
StoreDocuments == {"Q: a", "# b"}
BatchSizes == (1..MaxBatch) \cup {DefaultBatchSize}
AddLists == UNION {[1..n -> StoreDocuments] : n \in 0..MaxAdd}

\* a variant of BatchAt that leaves out the last document of a full batch
BatchAtShort(docs, i, batch_size) ==
    SubSeq(docs, i + 1, Min(i + batch_size - 1, Len(docs)))

\* documents[i : i + batch_size]
BatchAt(docs, i, batch_size) ==
    SubSeq(docs, i + 1, Min(i + batch_size, Len(docs)))

\* the batches of the loop for i in range(0, len(documents), batch_size),
\* from offset i on
RECURSIVE BatchesFrom(_, _, _)
BatchesFrom(docs, i, batch_size) ==
    IF i >= Len(docs) THEN <<>>
    ELSE <<BatchAt(docs, i, batch_size)>> \o BatchesFrom(docs, i + batch_size, batch_size)

\* the store's add_documents: one new id for each document of the batch
StoreIds(batch, from) == [j \in 1..Len(batch) |-> from + j]
StoreEntries(batch, from) == [j \in 1..Len(batch) |-> [id |-> from + j, document |-> batch[j]]]

\* what the loop over batches returns and leaves in the collection:
\* all_ids, the per-batch ids and the entries inserted
RECURSIVE AddBatches(_, _)
AddBatches(batches, from) ==
    IF batches = <<>> THEN [all_ids |-> <<>>, ids |-> <<>>, entries |-> <<>>]
    ELSE LET rest == AddBatches(Tail(batches), from + Len(Head(batches)))
         IN  [all_ids |-> StoreIds(Head(batches), from) \o rest.all_ids,
              ids |-> <<StoreIds(Head(batches), from)>> \o rest.ids,
              entries |-> StoreEntries(Head(batches), from) \o rest.entries]

\* the property vectorstore: the handle it returns, creating one when none
\* is cached
vectorstore == IF _vectorstore = None THEN handles + 1 ELSE _vectorstore[1]

\* a variant of Access that creates a handle on every access
AccessAlways ==
    /\ handles < MaxHandles
    /\ _vectorstore' = Some(handles + 1)
    /\ handles' = handles + 1

\* one or more reads of self.vectorstore within a call
Access ==
    /\ _vectorstore = None => handles < MaxHandles
    /\ _vectorstore' = Some(vectorstore)
    /\ handles' = IF _vectorstore = None THEN handles + 1 ELSE handles

\* the collection as the handle finds it: Chroma(...) creates it when missing
Entries == IF chroma = None THEN <<>> ELSE chroma[1]

add_documents(docs, batch_size) ==
    IF docs = <<>>
    THEN /\ lastStore' = [op |-> "add_documents", documents |-> docs,
                          batch_size |-> batch_size, raised |-> FALSE, used |-> None,
                          batches |-> <<>>, ids |-> <<>>, result |-> <<>>]
         /\ UNCHANGED <<_vectorstore, handles, chroma, issued>>
    ELSE LET added == AddBatches(BatchesFrom(docs, 0, batch_size), issued)
         IN  /\ issued + Len(docs) <= MaxIds
             /\ Access
             /\ chroma' = Some(Entries \o added.entries)
             /\ issued' = issued + Len(added.entries)
             /\ lastStore' = [op |-> "add_documents", documents |-> docs,
                              batch_size |-> batch_size, raised |-> FALSE,
                              used |-> Some(vectorstore),
                              batches |-> BatchesFrom(docs, 0, batch_size),
                              ids |-> added.ids, result |-> added.all_ids]

\* similarity_search and similarity_search_with_score: the k entries the
\* store ranks first
similarity_search(op, k) ==
    /\ Access
    /\ chroma' = Some(Entries)
    /\ lastStore' = [op |-> op, k |-> k, raised |-> FALSE, used |-> Some(vectorstore),
                     result |-> SubSeq(Entries, 1, Min(k, Len(Entries)))]
    /\ UNCHANGED issued

\* the client raises when the collection does not exist, and the assignment
\* after it is not reached
delete_collection ==
    /\ lastStore' = [op |-> "delete_collection", raised |-> chroma = None, used |-> None]
    /\ chroma' = None
    /\ _vectorstore' = IF chroma = None THEN _vectorstore ELSE None
    /\ UNCHANGED <<handles, issued>>

reset ==
    /\ lastStore' = [op |-> "reset", raised |-> FALSE, used |-> None]
    /\ chroma' = None
    /\ _vectorstore' = None
    /\ UNCHANGED <<handles, issued>>

\* reads the collection through the client, not through the handle
get_collection_stats ==
    /\ lastStore' = [op |-> "get_collection_stats", raised |-> chroma = None,
                     used |-> None, count |-> Len(Entries)]
    /\ UNCHANGED <<_vectorstore, handles, chroma, issued>>

InitStore == IdleEval /\ IdleParse /\ IdleSummary /\ IdleRag /\ IdleExt

NextStore ==
    \/ \E docs \in AddLists : \E batch_size \in BatchSizes :
           add_documents(docs, batch_size) /\ UNCHANGED exceptStore
    \/ \E op \in {"similarity_search", "similarity_search_with_score"} :
       \E k \in {1, DefaultK} :
           similarity_search(op, k) /\ UNCHANGED exceptStore
    \/ delete_collection /\ UNCHANGED exceptStore
    \/ reset /\ UNCHANGED exceptStore
    \/ get_collection_stats /\ UNCHANGED exceptStore

SpecStore == InitStore /\ [][NextStore]_vars

RECURSIVE Flatten(_)
Flatten(seqs) == IF seqs = <<>> THEN <<>> ELSE Head(seqs) \o Flatten(Tail(seqs))

\* C15: add_documents with batch_size >= 1 hands every document to the store
\* exactly once, in input order, in batches of exactly batch_size documents
\* but for a last one that may be shorter, and returns the ids of the batches
\* one after the other, as many ids as documents; for the empty list it
\* returns [] and makes no store call.
C15_Batches ==
    lastStore.op = "add_documents" =>
        /\ Flatten(lastStore.batches) = lastStore.documents
        /\ \A b \in 1..Len(lastStore.batches) :
            /\ Len(lastStore.batches[b]) >= 1
            /\ Len(lastStore.batches[b]) <= lastStore.batch_size
            /\ b < Len(lastStore.batches) =>
                    Len(lastStore.batches[b]) = lastStore.batch_size
        /\ lastStore.result = Flatten(lastStore.ids)
        /\ Len(lastStore.ids) = Len(lastStore.batches)
        /\ \A b \in 1..Len(lastStore.ids) :
            Len(lastStore.ids[b]) = Len(lastStore.batches[b])
        /\ Len(lastStore.result) = Len(lastStore.documents)
        /\ \A i, j \in 1..Len(lastStore.result) :
            i # j => lastStore.result[i] # lastStore.result[j]
        /\ lastStore.documents = <<>> =>
            /\ lastStore.result = <<>>
            /\ lastStore.batches = <<>>
            /\ lastStore.used = None
        /\ ~lastStore.raised

C15_Witness ==
    /\ lastStore.op = "add_documents"
    /\ lastStore.batch_size = 2
    /\ lastStore.documents = <<"Q: a", "# b", "Q: a">>
    /\ lastStore.batches = <<(<<"Q: a", "# b">>), (<<"Q: a">>)>>
    /\ lastStore.result = <<2, 3, 4>>
    /\ Len(Entries) = 4

C15_WitnessEmpty ==
    /\ lastStore.op = "add_documents"
    /\ lastStore.documents = <<>>
    /\ lastStore.result = <<>>
    /\ handles = 0

\* C16: delete_collection and reset leave no handle cached; a call that goes
\* through the handle uses the cached one when there is one, creating none,
\* and otherwise creates a handle that never existed before and caches it.
C16_HandleLifecycle ==
    [][/\ lastStore'.op \in {"delete_collection", "reset"} => _vectorstore' = None
       /\ (lastStore'.op # "init" /\ lastStore'.used # None) =>
            /\ _vectorstore' = lastStore'.used
            /\ _vectorstore # None =>
                    /\ _vectorstore' = _vectorstore
                    /\ handles' = handles
            /\ _vectorstore = None =>
                    /\ lastStore'.used[1] > handles
                    /\ handles' = lastStore'.used[1]
       /\ (lastStore'.op # "init" /\ lastStore'.used = None) =>
            /\ handles' = handles
            /\ _vectorstore' \in {_vectorstore, None}]_vars

C16_Witness ==
    /\ lastStore.op = "similarity_search"
    /\ lastStore.used = Some(2)
    /\ _vectorstore = Some(2)
    /\ handles = 2
    /\ chroma = Some(<<>>)
    /\ issued > 0

-----------------------------------------------------------------------------
(* src/agent/main.py: entrypoint, called once for each room session, and   *)
(* the InterviewAgent it constructs.  A call runs from one await to the    *)
(* next; jobs[room].pc is the step the call is at.  A JSON value is        *)
(* [t |-> "str", v |-> text], [t |-> "null"], [t |-> "array"] or           *)
(* [t |-> "object", v |-> key -> JSON value].                              *)

MaxRooms == 2

Rooms == {"room-1", "room-2", "room-3"}
InterviewTypeNames == {"behavioral", "technical", "system_design"}

JsonStr(text) == [t |-> "str", v |-> text]
JsonNull == [t |-> "null"]
JsonArray == [t |-> "array"]
JsonObject(fields) == [t |-> "object", v |-> fields]

\* what the room's creator may have put in ctx.room.metadata ("" when nothing)
RoomMetadata ==
    {"", "{bad", "[1]", "null", "{}",
     "{\"interview_type\": \"technical\", \"candidate_info\": \"Ann\"}",
     "{\"interview_type\": \"system_design\"}",
     "{\"interview_type\": \"coding\"}",
     "{\"interview_type\": null}"}

\* json.loads(text): None where it raises JSONDecodeError
JsonLoads(text) ==
    CASE text = "[1]" -> Some(JsonArray)
      [] text = "null" -> Some(JsonNull)
      [] text = "{}" -> Some(JsonObject([k \in {} |-> JsonNull]))
      [] text = "{\"interview_type\": \"technical\", \"candidate_info\": \"Ann\"}" ->
            Some(JsonObject([interview_type |-> JsonStr("technical"),
                             candidate_info |-> JsonStr("Ann")]))
      [] text = "{\"interview_type\": \"system_design\"}" ->
            Some(JsonObject([interview_type |-> JsonStr("system_design")]))
      [] text = "{\"interview_type\": \"coding\"}" ->
            Some(JsonObject([interview_type |-> JsonStr("coding")]))
      [] text = "{\"interview_type\": null}" ->
            Some(JsonObject([interview_type |-> JsonNull]))
      [] OTHER -> None

\* metadata.get(key, default) of a dict
Get(metadata, key, default) ==
    IF key \in DOMAIN metadata.v THEN metadata.v[key] ELSE JsonStr(default)

\* the interview configuration entrypoint reads from the room metadata;
\* raised when an exception other than JSONDecodeError leaves the try
ParsedMetadata(text) ==
    LET loaded == JsonLoads(text)
        defaults == [raised |-> FALSE, interview_type |-> JsonStr("behavioral"),
                     candidate_info |-> JsonStr("")]
    IN  IF text = "" THEN defaults
        ELSE IF loaded = None THEN defaults                \* except JSONDecodeError
        ELSE IF loaded[1].t # "object"                     \* no attribute 'get'
             THEN [raised |-> TRUE, interview_type |-> JsonStr("behavioral"),
                   candidate_info |-> JsonStr("")]
        ELSE [raised |-> FALSE,
              interview_type |-> Get(loaded[1], "interview_type", "behavioral"),
              candidate_info |-> Get(loaded[1], "candidate_info", "")]

\* get_system_prompt's choice: INTERVIEW_PROMPTS.get(interview_type, BEHAVIORAL_PROMPT)
TypePrompt(interview_type) ==
    IF interview_type.t = "str" /\ interview_type.v \in InterviewTypeNames
    THEN interview_type.v
    ELSE "behavioral"

InterviewAgent(interview_type, candidate_info) ==
    [instructions |-> TypePrompt(interview_type),
     interview_type |-> interview_type,
     candidate_info |-> candidate_info]

\* a room session starts: the worker calls entrypoint(ctx)
Dispatch(room, metadata) ==
    /\ room \notin DOMAIN jobs
    /\ Cardinality(DOMAIN jobs) < MaxRooms
    /\ jobs' = Put(jobs, room, [pc |-> "parse", metadata |-> metadata])

\* up to await ctx.connect(...)
ParseMetadata(room) ==
    /\ room \in DOMAIN jobs
    /\ jobs[room].pc = "parse"
    /\ LET parsed_ == ParsedMetadata(jobs[room].metadata)
       IN  jobs' = Put(jobs, room,
                       [pc |-> IF parsed_.raised THEN "raised" ELSE "connect",
                        metadata |-> jobs[room].metadata,
                        interview_type |-> parsed_.interview_type,
                        candidate_info |-> parsed_.candidate_info])

\* await ctx.connect(...) and await ctx.wait_for_participant() return
Connect(room) ==
    /\ room \in DOMAIN jobs
    /\ jobs[room].pc = "connect"
    /\ jobs' = Put(jobs, room, [jobs[room] EXCEPT !.pc = "agent"])

\* the AgentSession and the InterviewAgent are created, the session started
CreateAgent(room) ==
    /\ room \in DOMAIN jobs
    /\ jobs[room].pc = "agent"
    /\ jobs' = Put(jobs, room,
                   [pc |-> "started",
                    metadata |-> jobs[room].metadata,
                    interview_type |-> jobs[room].interview_type,
                    candidate_info |-> jobs[room].candidate_info,
                    interview_agent |-> InterviewAgent(jobs[room].interview_type,
                                                       jobs[room].candidate_info)])

InitEntry == IdleEval /\ IdleParse /\ IdleSummary /\ IdleRag /\ IdleExt

NextEntry ==
    \/ \E room \in Rooms : \E metadata \in RoomMetadata :
           Dispatch(room, metadata) /\ UNCHANGED exceptEntry
    \/ \E room \in Rooms : ParseMetadata(room) /\ UNCHANGED exceptEntry
    \/ \E room \in Rooms : Connect(room) /\ UNCHANGED exceptEntry
    \/ \E room \in Rooms : CreateAgent(room) /\ UNCHANGED exceptEntry

SpecEntry == InitEntry /\ [][NextEntry]_vars

\* C17 (as stated): whatever the room metadata is, absent, malformed JSON or
\* well-formed JSON of any shape, entrypoint gets past the parsing of the
\* metadata without an error and constructs the agent with an interview type
\* that is behavioral, technical or system_design; absent or malformed
\* metadata gives behavioral and an empty candidate_info.
C17_MetadataNeverFails ==
    \A room \in DOMAIN jobs :
        /\ jobs[room].pc # "raised"
        /\ jobs[room].pc = "started" =>
            /\ jobs[room].interview_agent.interview_type.t = "str"
            /\ jobs[room].interview_agent.interview_type.v \in InterviewTypeNames
        /\ (/\ jobs[room].pc = "started"
            /\ jobs[room].metadata = "" \/ JsonLoads(jobs[room].metadata) = None) =>
            /\ jobs[room].interview_agent.interview_type = JsonStr("behavioral")
            /\ jobs[room].interview_agent.candidate_info = JsonStr("")

-----------------------------------------------------------------------------
(* Two evaluate_response calls for one open session, run by two threads.   *)
(* Each call goes through the statements of evaluate_response and          *)
(* add_score one at a time, and the other call may run between any two:    *)
(*   evaluate  the LLM call and the parse, then session_id in _sessions    *)
(*   append    self.scores.append(score)                                   *)
(*   read      the load of self.questions_answered for += 1                *)
(*   write     the store of the incremented value                          *)
(*   total     total = sum(s.overall for s in self.scores)                 *)
(*   divide    total / len(self.scores)                                    *)
(*   store     the store into self.average_score                           *)

Callers == {"first", "second"}
RaceReplies == {"Score: 3", "Score: 9"}
RaceStarts == {<<>>, <<"Score: 6">>}

Parsed == [text \in RaceReplies \cup {"Score: 6"} |-> _parse_evaluation(text)]

\* the open session the calls find
RECURSIVE Scored(_, _)
Scored(self, texts) ==
    IF texts = <<>> THEN self ELSE Scored(add_score(self, Parsed[Head(texts)]), Tail(texts))

InAddScore == {"read", "write", "total", "divide", "store"}

\* caller takes a statement of add_score while another call is inside it
Overlaps(caller) ==
    overlapped \/ \E other \in Callers \ {caller} : pc[other] \in InAddScore

\* a variant of Incremented that counts a question twice
IncrementedTwice(value) == value + 2

\* questions_answered + 1
Incremented(value) == value + 1

Evaluate(caller, text) ==
    /\ pc[caller] = "evaluate"
    /\ tmp' = [tmp EXCEPT ![caller].score = Some(Parsed[text])]
    /\ pc' = [pc EXCEPT ![caller] = "append"]
    /\ UNCHANGED <<open_session, before, overlapped>>

AppendScore(caller) ==
    /\ pc[caller] = "append"
    /\ open_session' = [open_session EXCEPT !.scores = Append(@, tmp[caller].score[1])]
    /\ pc' = [pc EXCEPT ![caller] = "read"]
    /\ overlapped' = Overlaps(caller)
    /\ UNCHANGED <<tmp, before>>

ReadAnswered(caller) ==
    /\ pc[caller] = "read"
    /\ tmp' = [tmp EXCEPT ![caller].answered = open_session.questions_answered]
    /\ pc' = [pc EXCEPT ![caller] = "write"]
    /\ overlapped' = Overlaps(caller)
    /\ UNCHANGED <<open_session, before>>

WriteAnswered(caller) ==
    /\ pc[caller] = "write"
    /\ open_session' = [open_session EXCEPT
                            !.questions_answered = Incremented(tmp[caller].answered)]
    /\ pc' = [pc EXCEPT ![caller] = "total"]
    /\ overlapped' = Overlaps(caller)
    /\ UNCHANGED <<tmp, before>>

Total(caller) ==
    /\ pc[caller] = "total"
    /\ tmp' = [tmp EXCEPT ![caller].total = SumOverall(open_session.scores)]
    /\ pc' = [pc EXCEPT ![caller] = "divide"]
    /\ overlapped' = Overlaps(caller)
    /\ UNCHANGED <<open_session, before>>

Divide(caller) ==
    /\ pc[caller] = "divide"
    /\ tmp' = [tmp EXCEPT ![caller].average =
                    Quotient(tmp[caller].total, Len(open_session.scores))]
    /\ pc' = [pc EXCEPT ![caller] = "store"]
    /\ overlapped' = Overlaps(caller)
    /\ UNCHANGED <<open_session, before>>

StoreAverage(caller) ==
    /\ pc[caller] = "store"
    /\ open_session' = [open_session EXCEPT !.average_score = tmp[caller].average]
    /\ pc' = [pc EXCEPT ![caller] = "done"]
    /\ overlapped' = Overlaps(caller)
    /\ UNCHANGED <<tmp, before>>

InitRace ==
    /\ IdleEval /\ IdleParse /\ IdleSummary /\ IdleRag
    /\ IdleChunk /\ IdleLoad /\ IdleStore /\ IdleEntry /\ IdleConfig
    /\ \E texts \in RaceStarts :
        /\ open_session = Scored(SessionMetrics("s1", "technical", 0), texts)
        /\ before = Scored(SessionMetrics("s1", "technical", 0), texts)
    /\ pc = [caller \in Callers |-> "evaluate"]
    /\ tmp = [caller \in Callers |->
                [score |-> None, answered |-> 0, total |-> 0, average |-> Zero]]
    /\ overlapped = FALSE

NextRace ==
    \/ \E caller \in Callers : \E text \in RaceReplies :
           Evaluate(caller, text) /\ UNCHANGED exceptRace
    \/ \E caller \in Callers : AppendScore(caller) /\ UNCHANGED exceptRace
    \/ \E caller \in Callers : ReadAnswered(caller) /\ UNCHANGED exceptRace
    \/ \E caller \in Callers : WriteAnswered(caller) /\ UNCHANGED exceptRace
    \/ \E caller \in Callers : Total(caller) /\ UNCHANGED exceptRace
    \/ \E caller \in Callers : Divide(caller) /\ UNCHANGED exceptRace
    \/ \E caller \in Callers : StoreAverage(caller) /\ UNCHANGED exceptRace

SpecRace == InitRace /\ [][NextRace]_vars

BothDone == pc # <<>> /\ \A caller \in Callers : pc[caller] = "done"

Consistent(self) ==
    /\ self.questions_answered = Len(self.scores)
    /\ SameFraction(self.average_score,
                    Quotient(SumOverall(self.scores), Len(self.scores)))

\* C20 (as stated): when the two calls interleave statement by statement,
\* once both have completed questions_answered = len(scores) = 2 more than
\* before and average_score is the mean of all recorded scores.
C20_ConcurrentConsistent ==
    BothDone =>
        /\ Len(open_session.scores) = Len(before.scores) + 2
        /\ Consistent(open_session)

\* C20 (amended): once both calls have completed, both scores are in scores,
\* after the earlier ones; questions_answered is one or two more than before;
\* average_score is the sum of all scores, or of all but the last, over the
\* number of scores or one less.  When neither call ran a statement of
\* add_score inside the other's, questions_answered = len(scores) and
\* average_score is the mean of all scores.
C20_ConcurrentOutcome ==
    BothDone =>
        LET n == Len(open_session.scores)
            all == SumOverall(open_session.scores)
            butLast == SumOverall(SubSeq(open_session.scores, 1, n - 1))
        IN  /\ n = Len(before.scores) + 2
            /\ SubSeq(open_session.scores, 1, n - 2) = before.scores
            /\ {open_session.scores[n - 1], open_session.scores[n]}
                    = {tmp[caller].score[1] : caller \in Callers}
            /\ open_session.questions_answered
                    \in {before.questions_answered + 1, before.questions_answered + 2}
            /\ \/ SameFraction(open_session.average_score, Quotient(all, n))
               \/ SameFraction(open_session.average_score, Quotient(butLast, n))
               \/ SameFraction(open_session.average_score, Quotient(butLast, n - 1))
            /\ ~overlapped => Consistent(open_session)

\* a lost update: both calls read questions_answered before either wrote it
C20_Witness ==
    /\ BothDone
    /\ overlapped
    /\ before.questions_answered = 1
    /\ Len(open_session.scores) = 3
    /\ open_session.questions_answered = 2
    /\ open_session.average_score = Quotient(6 + 3 + 9, 3)

\* a stale average: one call summed the scores before the other appended
\* and divided after
C20_WitnessStale ==
    /\ BothDone
    /\ overlapped
    /\ Len(open_session.scores) = 3
    /\ open_session.questions_answered = 3
    /\ open_session.scores[3].overall = 9
    /\ open_session.average_score = Quotient(6 + 3, 3)

\* the calls one after the other
C20_WitnessSerial ==
    /\ BothDone
    /\ ~overlapped
    /\ Len(open_session.scores) = 3
    /\ Consistent(open_session)

-----------------------------------------------------------------------------
(* src/agent/config.py: Settings and get_settings; src/rag/chunker.py:     *)
(* SemanticChunker.__init__.  The process starts with CHUNK_SIZE and       *)
(* CHUNK_OVERLAP set or unset in its environment, loads its settings once, *)
(* and a chunker is then built with the configured values.  The text       *)
(* splitter underneath is the langchain library's, which refuses an        *)
(* overlap larger than the chunk size.                                     *)

\* chunk_size: int = Field(default=512, ge=100, le=2000)
ChunkSizeDefault == 512
ChunkSizeGe == 100
ChunkSizeLe == 2000

\* chunk_overlap: int = Field(default=50, ge=0, le=200)
ChunkOverlapDefault == 50
ChunkOverlapGe == 0
ChunkOverlapLe == 200

\* the values tried: each limit, its neighbours outside, and values between
SizeValues == {99, 100, 150, 200, 201, 512, 2000, 2001}
OverlapValues == {-1, 0, 50, 100, 150, 199, 200, 201}

Environments ==
    [CHUNK_SIZE : {None} \cup {Some(n) : n \in SizeValues},
     CHUNK_OVERLAP : {None} \cup {Some(n) : n \in OverlapValues}]

\* an int field: the environment's value if set, else the default; accepted
\* when ge <= value <= le
FieldValue(value, default) == IF value = None THEN default ELSE value[1]

Accepted(value, ge, le) == ge <= value /\ value <= le

\* Settings(): each field is validated on its own
Settings(env) ==
    LET chunk_size == FieldValue(env.CHUNK_SIZE, ChunkSizeDefault)
        chunk_overlap == FieldValue(env.CHUNK_OVERLAP, ChunkOverlapDefault)
    IN IF /\ Accepted(chunk_size, ChunkSizeGe, ChunkSizeLe)
          /\ Accepted(chunk_overlap, ChunkOverlapGe, ChunkOverlapLe)
       THEN Returned([chunk_size |-> chunk_size, chunk_overlap |-> chunk_overlap])
       ELSE Raised

\* SemanticChunker(chunk_size, chunk_overlap): the attributes are kept and
\* the splitter is built, which raises ValueError for an overlap larger than
\* the chunk size
SemanticChunker(chunk_size, chunk_overlap) ==
    IF chunk_overlap > chunk_size THEN Raised
    ELSE Returned([chunk_size |-> chunk_size, chunk_overlap |-> chunk_overlap])

\* the first get_settings() of the process: the result is what every later
\* call returns; a ValidationError ends the start-up
get_settings ==
    /\ settings = None
    /\ settings' = Some(Settings(environ))
    /\ UNCHANGED <<environ, chunker>>

\* create_chunker with the configured values
create_chunker ==
    /\ settings # None
    /\ ~settings[1].raised
    /\ chunker = None
    /\ chunker' = Some(SemanticChunker(settings[1].value.chunk_size,
                                       settings[1].value.chunk_overlap))
    /\ UNCHANGED <<environ, settings>>

InitConfig ==
    /\ IdleEval /\ IdleParse /\ IdleSummary /\ IdleRag
    /\ IdleChunk /\ IdleLoad /\ IdleStore /\ IdleEntry /\ IdleRace
    /\ environ \in Environments
    /\ settings = None
    /\ chunker = None

NextConfig ==
    \/ get_settings /\ UNCHANGED exceptConfig
    \/ create_chunker /\ UNCHANGED exceptConfig

SpecConfig == InitConfig /\ [][NextConfig]_vars

\* C22: every (chunk_size, chunk_overlap) pair the settings accept, with
\* chunk_size in 100..2000 and chunk_overlap in 0..200, has
\* chunk_overlap < chunk_size, the chunker's precondition.
C22_AcceptedOverlapBelowSize ==
    (settings # None /\ ~settings[1].raised) =>
        /\ settings[1].value.chunk_size \in 100..2000
        /\ settings[1].value.chunk_overlap \in 0..200
        /\ settings[1].value.chunk_overlap < settings[1].value.chunk_size

=============================================================================
